---------------------------- MODULE Spec2Model ----------------------------
(***************************************************************************)
(* Model of avocado's filter DSL (src/src/dsl/filter.rs): the BsonType and *)
(* RegexOpts bitflag codecs, the Filter serializer and the flt! document   *)
(* builder.                                                                *)
(*                                                                         *)
(* Strings that the code only compares or copies are TLA+ strings.  The    *)
(* strings the code takes apart (regex option strings) are sequences of    *)
(* Unicode scalar values, and their UTF-8 form is a sequence of bytes.     *)
(***************************************************************************)
EXTENDS Integers, Sequences, FiniteSets, TLC

VARIABLES
    pc,          \* which call of the scenario has been made
    bsonType,    \* the BsonType value handed to serialize (u16 bits)
    typeWire,    \* what BsonType::serialize emitted / what deserialize is fed
    typeResult,  \* the Result of BsonType::deserialize
    regexOpts,   \* the RegexOpts value handed to serialize (u8 bits)
    optsWire,    \* what RegexOpts::serialize emitted / what deserialize is fed
    optsResult,  \* the Result of RegexOpts::deserialize
    usizeBytes,  \* size_of::<usize>() of the build target
    filter,      \* the Filter value handed to serialize
    bson,        \* the Result of Filter::serialize
    args,        \* the (path, value) pairs of a flt! invocation, in order
    done,        \* how many of them the expansion has inserted so far
    doc          \* the FilterDoc under construction

vars == <<pc, bsonType, typeWire, typeResult, regexOpts, optsWire, optsResult,
          usizeBytes, filter, bson, args, done, doc>>

\* Placeholder of a variable that holds nothing yet.
None == [kind |-> "none"]

-----------------------------------------------------------------------------
(* Bounds of the model *)

\* Longest sequence of type aliases fed to BsonType::deserialize.
MaxAliases == 3

-----------------------------------------------------------------------------
(* Sequences and bit operations *)

\* All sequences over S of length at most n.
SeqUpTo(S, n) == UNION {[1..k -> S] : k \in 0..n}

Range(s) == {s[i] : i \in DOMAIN s}

RECURSIVE BitAnd(_, _)
\* a & b on non-negative integers.
BitAnd(a, b) ==
    IF a = 0 \/ b = 0 THEN 0
    ELSE (a % 2) * (b % 2) + 2 * BitAnd(a \div 2, b \div 2)

\* a | b on non-negative integers.
BitOr(a, b) == a + b - BitAnd(a, b)

RECURSIVE count_ones(_)
\* u16::count_ones / u8::count_ones.
count_ones(bits) ==
    IF bits = 0 THEN 0 ELSE (bits % 2) + count_ones(bits \div 2)

\* bitflags' contains(): every bit of flag is set in self.
contains(self, flag) == BitAnd(self, flag) = flag

-----------------------------------------------------------------------------
(* BsonType: the bitflags and the alias table *)

NULL                  == 1
BOOL                  == 2
DOUBLE                == 4
INT                   == 8
LONG                  == 16
DECIMAL               == 32
NUMBER                == 60
OBJECT_ID             == 64
TIMESTAMP             == 128
DATE                  == 256
STRING_FLAG           == 512   \* STRING (a reserved word of TLA+)
REGEX                 == 1024
BINARY                == 2048
ARRAY                 == 4096
DOCUMENT              == 8192
JAVASCRIPT            == 16384
JAVASCRIPT_WITH_SCOPE == 32768

\* Every value a BsonType can hold: all 16 bits are declared flags.
BsonTypeAll == 0..65535

TYPE_NAMES == <<
    <<NULL,                  "null">>,
    <<BOOL,                  "bool">>,
    <<DOUBLE,                "double">>,
    <<INT,                   "int">>,
    <<LONG,                  "int">>,
    <<DECIMAL,               "decimal">>,
    <<OBJECT_ID,             "objectId">>,
    <<TIMESTAMP,             "timestamp">>,
    <<DATE,                  "date">>,
    <<STRING_FLAG,           "string">>,
    <<REGEX,                 "regex">>,
    <<BINARY,                "binData">>,
    <<ARRAY,                 "array">>,
    <<DOCUMENT,              "object">>,
    <<JAVASCRIPT,            "javascript">>,
    <<JAVASCRIPT_WITH_SCOPE, "javascriptWithScope">> >>

\* What a serializer is handed, and what a deserializer is fed.
WireStr(s) == [kind |-> "str", str |-> s]
WireSeq(q) == [kind |-> "seq", seq |-> q]
SerErr(m)  == [kind |-> "err", msg |-> m]

\* Result of a deserializer.
Ok(v)         == [kind |-> "ok", value |-> v]
DeErr(m, tok) == [kind |-> "err", msg |-> m, token |-> tok]

\* The first of the matching table rows, 0 when there is none
\* (the `for ... return` scan and Iterator::find).
FirstIndex(matching) ==
    IF matching = {} THEN 0
    ELSE CHOOSE i \in matching : \A j \in matching : i <= j

\* The 1 => arm: the alias of the first entry whose flag self contains.
BsonTypeSerializeOne(self) ==
    LET i == FirstIndex({r \in DOMAIN TYPE_NAMES : contains(self, TYPE_NAMES[r][1])})
    IN  IF i = 0 THEN SerErr("found an unexpected flag")
        ELSE WireStr(TYPE_NAMES[i][2])

RECURSIVE BsonTypeSerializeSeq(_, _, _)
\* The n => arm: one serialize_element per entry whose flag self contains,
\* from entry i on, appended to seq.
BsonTypeSerializeSeq(self, i, seq) ==
    IF i > Len(TYPE_NAMES) THEN seq
    ELSE BsonTypeSerializeSeq(self, i + 1,
            IF contains(self, TYPE_NAMES[i][1])
            THEN Append(seq, TYPE_NAMES[i][2]) ELSE seq)

\* Mutant: the multi-type arm skips an alias it has already emitted.
BsonTypeSerializeDedup(self) ==
    LET n == count_ones(self)
        all == BsonTypeSerializeSeq(self, 1, <<>>)
        keep == {i \in DOMAIN all : \A j \in 1..(i - 1) : all[j] # all[i]}
        RECURSIVE Pick(_)
        Pick(i) == IF i > Len(all) THEN <<>>
                   ELSE (IF i \in keep THEN <<all[i]>> ELSE <<>>) \o Pick(i + 1)
    IN  IF n = 0 THEN SerErr("at least one type must be specified")
        ELSE IF n = 1 THEN BsonTypeSerializeOne(self)
        ELSE WireSeq(Pick(1))

\* impl Serialize for BsonType.
BsonTypeSerialize(self) ==
    LET n == count_ones(self)
    IN  IF n = 0 THEN SerErr("at least one type must be specified")
        ELSE IF n = 1 THEN BsonTypeSerializeOne(self)
        ELSE WireSeq(BsonTypeSerializeSeq(self, 1, <<>>))

\* Mutant: the lookup takes the last entry with the alias, not the first.
bitflag_for_name_last(name) ==
    IF \E i \in DOMAIN TYPE_NAMES : TYPE_NAMES[i][2] = name
    THEN Ok(TYPE_NAMES[CHOOSE i \in DOMAIN TYPE_NAMES :
                /\ TYPE_NAMES[i][2] = name
                /\ \A j \in DOMAIN TYPE_NAMES :
                        j > i => TYPE_NAMES[j][2] # name][1])
    ELSE DeErr("unknown BSON type alias", name)

\* BsonTypeVisitor::bitflag_for_name.
bitflag_for_name(name) ==
    LET i == FirstIndex({r \in DOMAIN TYPE_NAMES : TYPE_NAMES[r][2] = name})
    IN  IF i = 0 THEN DeErr("unknown BSON type alias", name)
        ELSE Ok(TYPE_NAMES[i][1])

\* BsonTypeVisitor::visit_str.
BsonType_visit_str(value) == bitflag_for_name(value)

RECURSIVE BsonType_visit_seq_from(_, _, _)
\* The while-let loop of visit_seq: elements i.. of seq, flags so far.
BsonType_visit_seq_from(seq, i, flags) ==
    IF i > Len(seq) THEN Ok(flags)
    ELSE LET r == bitflag_for_name(seq[i])
         IN  IF r.kind = "err" THEN r
             ELSE BsonType_visit_seq_from(seq, i + 1, BitOr(flags, r.value))

\* BsonTypeVisitor::visit_seq, starting from BsonType::empty().
BsonType_visit_seq(seq) == BsonType_visit_seq_from(seq, 1, 0)

\* impl Deserialize for BsonType: deserialize_any dispatches on the input.
BsonTypeDeserialize(wire) ==
    IF wire.kind = "str" THEN BsonType_visit_str(wire.str)
    ELSE BsonType_visit_seq(wire.seq)

-----------------------------------------------------------------------------
(* Scenario of the BsonType codec: a value is serialized and the output    *)
(* deserialized again; or an input from outside is deserialized.           *)

\* The aliases of the table, and two strings that are not aliases.
TypeAliases == {TYPE_NAMES[i][2] : i \in DOMAIN TYPE_NAMES}
AliasInputs == TypeAliases \cup {"long", "number"}

TypeWireInputs ==
    {WireStr(s) : s \in AliasInputs}
        \cup {WireSeq(q) : q \in SeqUpTo(AliasInputs, MaxAliases)}

OtherIdle(p) ==
    /\ p \in {"type"} \/ (bsonType = 0 /\ typeWire = None /\ typeResult = None)
    /\ p \in {"regex"} \/ (regexOpts = 0 /\ optsWire = None /\ optsResult = None)
    /\ p \in {"filter"} \/ (usizeBytes = 8 /\ filter = None /\ bson = None)
    /\ p \in {"doc"} \/ (args = <<>> /\ done = 0 /\ doc = <<>>)

TypeInit ==
    /\ pc = "type_value"
    /\ bsonType \in BsonTypeAll
    /\ typeWire = None
    /\ typeResult = None
    /\ OtherIdle("type")

\* bson::to_bson(&types): the value is serialized.
TypeSerialize ==
    /\ pc = "type_value"
    /\ typeWire' = BsonTypeSerialize(bsonType)
    /\ pc' = "type_serialized"
    /\ UNCHANGED <<bsonType, typeResult, regexOpts, optsWire, optsResult,
                   usizeBytes, filter, bson, args, done, doc>>

\* bson::from_bson of what TypeSerialize emitted.
TypeRoundTrip ==
    /\ pc = "type_serialized"
    /\ typeWire.kind # "err"
    /\ typeResult' = BsonTypeDeserialize(typeWire)
    /\ pc' = "type_roundtrip"
    /\ UNCHANGED <<bsonType, typeWire, regexOpts, optsWire, optsResult,
                   usizeBytes, filter, bson, args, done, doc>>

TypeNext == TypeSerialize \/ TypeRoundTrip

SpecType == TypeInit /\ [][TypeNext]_vars

TypeInputInit ==
    /\ pc = "type_input"
    /\ bsonType = 0
    /\ typeWire \in TypeWireInputs
    /\ typeResult = None
    /\ OtherIdle("type")

\* BsonType::deserialize of a string or a sequence of strings from outside.
TypeDeserialize ==
    /\ pc = "type_input"
    /\ typeResult' = BsonTypeDeserialize(typeWire)
    /\ pc' = "type_deserialized"
    /\ UNCHANGED <<bsonType, typeWire, regexOpts, optsWire, optsResult,
                   usizeBytes, filter, bson, args, done, doc>>

\* bson::to_bson of the value a successful deserialization returned.
TypeReserialize ==
    /\ pc = "type_deserialized"
    /\ typeResult.kind = "ok"
    /\ bsonType' = typeResult.value
    /\ typeWire' = BsonTypeSerialize(typeResult.value)
    /\ pc' = "type_reserialized"
    /\ UNCHANGED <<typeResult, regexOpts, optsWire, optsResult,
                   usizeBytes, filter, bson, args, done, doc>>

TypeInputNext == TypeDeserialize \/ TypeReserialize

SpecTypeInput == TypeInputInit /\ [][TypeInputNext]_vars

-----------------------------------------------------------------------------
(* Properties of the BsonType codec *)

\* The single-bit flags set in a 16-bit value, read off by division.
BitsOf(s) == {b \in 0..15 : (s \div (2 ^ b)) % 2 = 1}
FlagOfBit(b) == 2 ^ b

\* The table rows whose flag is one of the bits of s, in ascending order.
RowsIn(s) == {i \in DOMAIN TYPE_NAMES : \E b \in BitsOf(s) : TYPE_NAMES[i][1] = FlagOfBit(b)}

\* C1: every non-empty set S of single-bit flags survives serialization
\* followed by deserialization: the decoder succeeds and returns exactly S.
C1_TypeRoundTrip ==
    (pc = "type_roundtrip" /\ bsonType # 0)
        => typeResult = Ok(bsonType)

RowOfAlias(name) ==
    CHOOSE i \in DOMAIN TYPE_NAMES :
        /\ TYPE_NAMES[i][2] = name
        /\ \A j \in DOMAIN TYPE_NAMES : TYPE_NAMES[j][2] = name => i <= j
FlagOfAlias(name) == TYPE_NAMES[RowOfAlias(name)][1]

\* The bits of the flags matched by a set of aliases.
BitsOfAliases(names) == {b \in 0..15 : \E n \in names : FlagOfAlias(n) = FlagOfBit(b)}

\* C4: an alias string decodes to its matching flag; a sequence of aliases
\* decodes to the union of the flags of its elements, whatever their order
\* and repetition; a string or an element that is no alias of the table
\* makes the decoder fail with an error naming that string.
C4_TypeDecoding ==
    pc = "type_deserialized" =>
        LET names == IF typeWire.kind = "str" THEN <<typeWire.str>> ELSE typeWire.seq
            bad == {i \in DOMAIN names : names[i] \notin TypeAliases}
        IN  IF bad = {}
            THEN /\ typeResult.kind = "ok"
                 /\ BitsOf(typeResult.value) = BitsOfAliases(Range(names))
                 /\ typeWire.kind = "str" =>
                        /\ Cardinality(BitsOf(typeResult.value)) = 1
                        /\ \E i \in DOMAIN TYPE_NAMES :
                                TYPE_NAMES[i] = <<typeResult.value, typeWire.str>>
            ELSE /\ typeResult.kind = "err"
                 /\ typeResult.msg = "unknown BSON type alias"
                 /\ \E i \in bad :
                        /\ typeResult.token = names[i]
                        /\ \A j \in bad : i <= j

\* C4 witness: a sequence with a repeated alias, out of table order, has
\* been decoded to the union of two flags.
C4_Witness ==
    /\ pc = "type_deserialized"
    /\ typeWire = WireSeq(<<"string", "null", "string">>)
    /\ typeResult = Ok(STRING_FLAG + NULL)

\* C11: every successful decode, of one alias or of a sequence of aliases
\* of any length, the empty one included, returns a set with at least one
\* bit, so serializing the decoded set never gives the empty-type-set error.
C11_DecodedNonEmpty ==
    /\ (pc = "type_deserialized" /\ typeResult.kind = "ok")
            => typeResult.value # 0
    /\ pc = "type_reserialized" => typeWire.kind # "err"

-----------------------------------------------------------------------------
(* RegexOpts: the bitflags, the letter table and the codec *)

IGNORE_CASE == 1
LINE_ANCHOR == 2
EXTENDED    == 4
DOT_NEWLINE == 8

\* Every value a RegexOpts can hold: any union of the four declared flags.
RegexOptsAll == 0..15

\* The letters are the bytes b'i', b'm', b'x', b's'.
OPTION_LETTERS == <<
    <<IGNORE_CASE, 105>>,
    <<LINE_ANCHOR, 109>>,
    <<EXTENDED,    120>>,
    <<DOT_NEWLINE, 115>> >>

\* The UTF-8 bytes of one Unicode scalar value below U+10000.
Utf8OfChar(c) ==
    IF c < 128 THEN <<c>>
    ELSE IF c < 2048 THEN <<192 + (c \div 64), 128 + (c % 64)>>
    ELSE <<224 + (c \div 4096), 128 + ((c \div 64) % 64), 128 + (c % 64)>>

RECURSIVE str_bytes(_)
\* str::bytes(): the UTF-8 bytes of a string, given as its scalar values.
str_bytes(value) ==
    IF value = <<>> THEN <<>>
    ELSE Utf8OfChar(Head(value)) \o str_bytes(Tail(value))

RECURSIVE from_utf8_at(_, _, _)
\* str::from_utf8 from byte i on, chars decoded so far: one-, two- and
\* three-byte forms; anything else is invalid.
from_utf8_at(bytes, i, chars) ==
    LET n == Len(bytes)
        IsCont(j) == j <= n /\ bytes[j] >= 128 /\ bytes[j] <= 191
    IN  IF i > n THEN Ok(chars)
        ELSE IF bytes[i] < 128
            THEN from_utf8_at(bytes, i + 1, Append(chars, bytes[i]))
        ELSE IF bytes[i] >= 194 /\ bytes[i] <= 223 /\ IsCont(i + 1)
            THEN from_utf8_at(bytes, i + 2,
                    Append(chars, (bytes[i] - 192) * 64 + (bytes[i + 1] - 128)))
        ELSE IF /\ bytes[i] >= 224 /\ bytes[i] <= 239
                /\ IsCont(i + 1) /\ IsCont(i + 2)
                /\ (bytes[i] - 224) * 4096 + (bytes[i + 1] - 128) * 64 >= 2048
            THEN from_utf8_at(bytes, i + 3,
                    Append(chars, (bytes[i] - 224) * 4096
                                    + (bytes[i + 1] - 128) * 64
                                    + (bytes[i + 2] - 128)))
        ELSE SerErr("invalid utf-8 sequence")

from_utf8(bytes) == from_utf8_at(bytes, 1, <<>>)

RECURSIVE RegexOptsLetters(_, _, _)
\* The for loop of serialize: letters[..n] after the table rows i.. .
RegexOptsLetters(self, i, letters) ==
    IF i > Len(OPTION_LETTERS) THEN letters
    ELSE RegexOptsLetters(self, i + 1,
            IF contains(self, OPTION_LETTERS[i][1])
            THEN Append(letters, OPTION_LETTERS[i][2]) ELSE letters)

RECURSIVE RegexOptsLettersRev(_, _, _)
RegexOptsLettersRev(self, i, letters) ==
    IF i < 1 THEN letters
    ELSE RegexOptsLettersRev(self, i - 1,
            IF contains(self, OPTION_LETTERS[i][1])
            THEN Append(letters, OPTION_LETTERS[i][2]) ELSE letters)

\* Mutant: the letter table is walked from its last row to its first.
RegexOptsSerializeRev(self) ==
    LET s == from_utf8(RegexOptsLettersRev(self, Len(OPTION_LETTERS), <<>>))
    IN  IF s.kind = "err" THEN s ELSE WireStr(s.value)

\* impl Serialize for RegexOpts.
RegexOptsSerialize(self) ==
    LET s == from_utf8(RegexOptsLetters(self, 1, <<>>))
    IN  IF s.kind = "err" THEN s ELSE WireStr(s.value)

RECURSIVE RegexOpts_visit_bytes(_, _, _)
\* The for loop of visit_str over value.bytes(): bytes i.., options so far.
\* The error cites `byte as char`: the scalar value equal to the byte.
RegexOpts_visit_bytes(bytes, i, options) ==
    IF i > Len(bytes) THEN Ok(options)
    ELSE LET r == FirstIndex({k \in DOMAIN OPTION_LETTERS :
                                    OPTION_LETTERS[k][2] = bytes[i]})
         IN  IF r = 0 THEN DeErr("unexpected regex option", bytes[i])
             ELSE RegexOpts_visit_bytes(bytes, i + 1,
                    BitOr(options, OPTION_LETTERS[r][1]))

\* RegexOptsVisitor::visit_str, starting from RegexOpts::empty().
RegexOpts_visit_str(value) == RegexOpts_visit_bytes(str_bytes(value), 1, 0)

\* impl Deserialize for RegexOpts: deserialize_str hands over a string.
RegexOptsDeserialize(wire) == RegexOpts_visit_str(wire.str)

-----------------------------------------------------------------------------
(* Scenario of the RegexOpts codec *)

\* Longest option string fed to RegexOpts::deserialize.
MaxOptionChars == 4

\* 'i', 'm', 'x', 's', and three characters that are no option letter:
\* 'a' (one byte), U+00E9 (two bytes), U+20AC (three bytes).
OptionCharInputs == {105, 109, 120, 115, 97, 233, 8364}

OptsWireInputs == {WireStr(s) : s \in SeqUpTo(OptionCharInputs, MaxOptionChars)}

RegexInit ==
    /\ \/ /\ pc = "opts_value"
          /\ regexOpts \in RegexOptsAll
          /\ optsWire = None
       \/ /\ pc = "opts_input"
          /\ regexOpts = 0
          /\ optsWire \in OptsWireInputs
    /\ optsResult = None
    /\ OtherIdle("regex")

\* bson::to_bson(&options): the value is serialized.
OptsSerialize ==
    /\ pc = "opts_value"
    /\ optsWire' = RegexOptsSerialize(regexOpts)
    /\ pc' = "opts_serialized"
    /\ UNCHANGED <<bsonType, typeWire, typeResult, regexOpts, optsResult,
                   usizeBytes, filter, bson, args, done, doc>>

\* bson::from_bson of what OptsSerialize emitted.
OptsRoundTrip ==
    /\ pc = "opts_serialized"
    /\ optsWire.kind = "str"
    /\ optsResult' = RegexOptsDeserialize(optsWire)
    /\ pc' = "opts_roundtrip"
    /\ UNCHANGED <<bsonType, typeWire, typeResult, regexOpts, optsWire,
                   usizeBytes, filter, bson, args, done, doc>>

\* RegexOpts::deserialize of a string from outside.
OptsDeserialize ==
    /\ pc = "opts_input"
    /\ optsResult' = RegexOptsDeserialize(optsWire)
    /\ pc' = "opts_deserialized"
    /\ UNCHANGED <<bsonType, typeWire, typeResult, regexOpts, optsWire,
                   usizeBytes, filter, bson, args, done, doc>>

RegexNext == OptsSerialize \/ OptsRoundTrip \/ OptsDeserialize

SpecRegex == RegexInit /\ [][RegexNext]_vars

-----------------------------------------------------------------------------
(* Properties of the RegexOpts codec *)

\* The option letters in their canonical order, with the bit of each.
LetterRank == [c \in {105, 109, 120, 115} |->
                 IF c = 105 THEN 0 ELSE IF c = 109 THEN 1
                 ELSE IF c = 120 THEN 2 ELSE 3]
OptionChars == DOMAIN LetterRank

\* The flag set whose letters are the characters in cs.
OptsOfChars(cs) == {LetterRank[c] : c \in cs \cap OptionChars}
OptsBits(o) == {b \in 0..3 : (o \div (2 ^ b)) % 2 = 1}

\* C2: the option string holds the letter of each set flag exactly once,
\* nothing else, in the order i, m, x, s; and decoding it gives the set back.
C2_OptsRoundTrip ==
    /\ pc \in {"opts_serialized", "opts_roundtrip"} =>
        /\ optsWire.kind = "str"
        /\ LET s == optsWire.str
           IN  /\ \A c \in OptionChars :
                    Cardinality({p \in DOMAIN s : s[p] = c})
                        = (IF LetterRank[c] \in OptsBits(regexOpts) THEN 1 ELSE 0)
               /\ \A p \in DOMAIN s : s[p] \in OptionChars
               /\ \A p, q \in DOMAIN s :
                    p < q => LetterRank[s[p]] < LetterRank[s[q]]
    /\ pc = "opts_serialized" => ENABLED OptsRoundTrip
    /\ pc = "opts_roundtrip" => optsResult = Ok(regexOpts)

\* C2 witness: all four flags were serialized to "imxs" and decoded again.
C2_Witness ==
    /\ pc = "opts_roundtrip"
    /\ regexOpts = 15
    /\ optsWire = WireStr(<<105, 109, 120, 115>>)
    /\ optsResult = Ok(15)

\* C5: a string of option letters decodes to exactly the flags whose
\* letters occur in it; any other string makes the decoder fail with an
\* error citing the string's first character that is no option letter.
C5_OptsDecoding ==
    pc = "opts_deserialized" =>
        LET s == optsWire.str
            bad == {p \in DOMAIN s : s[p] \notin OptionChars}
        IN  IF bad = {}
            THEN /\ optsResult.kind = "ok"
                 /\ OptsBits(optsResult.value) = OptsOfChars(Range(s))
            ELSE /\ optsResult.kind = "err"
                 /\ \E p \in bad :
                        /\ optsResult.token = s[p]
                        /\ \A q \in bad : p <= q

-----------------------------------------------------------------------------
(* Structured values: what the serializer of the bson crate builds *)

BI32(n)   == [t |-> "i32", i32 |-> n]       \* Bson::I32
BI64(w)   == [t |-> "i64", bits |-> w]      \* Bson::I64, a 64-bit word
BBool(b)  == [t |-> "bool", bool |-> b]      \* Bson::Boolean
BStr(s)   == [t |-> "string", str |-> s]    \* Bson::String of a literal
BChars(c) == [t |-> "string", chars |-> c]  \* Bson::String of computed chars
BArr(a)   == [t |-> "array", arr |-> a]     \* Bson::Array
BDoc(e)   == [t |-> "document", doc |-> e]  \* Bson::Document: <<key, value>>s

\* The string or string sequence a flag codec emitted, as a structured value.
TypeWireToBson(w) ==
    IF w.kind = "err" THEN w
    ELSE IF w.kind = "str" THEN Ok(BStr(w.str))
    ELSE Ok(BArr([i \in DOMAIN w.seq |-> BStr(w.seq[i])]))

OptsWireToBson(w) == IF w.kind = "err" THEN w ELSE Ok(BChars(w.str))

-----------------------------------------------------------------------------
(* 64-bit words: four 16-bit limbs, most significant first *)

\* i64::MAX = 0x7FFF_FFFF_FFFF_FFFF.
I64_MAX == <<32767, 65535, 65535, 65535>>

RECURSIVE WordGtFrom(_, _, _)
WordGtFrom(a, b, i) ==
    IF i > Len(a) THEN FALSE
    ELSE IF a[i] # b[i] THEN a[i] > b[i]
    ELSE WordGtFrom(a, b, i + 1)

\* a > b on unsigned words.
WordGt(a, b) == WordGtFrom(a, b, 1)

\* `x as usize`: the low size_of::<usize>() bytes of the word.
AsUsize(w, usz) == IF usz >= 8 THEN w ELSE <<0, 0, w[3], w[4]>>

\* `size as i64`: the word of a usize, zero-extended, read as two's
\* complement (negative when its top bit is set).
AsI64(w) == w

-----------------------------------------------------------------------------
(* Filter and its serializer *)

Value(b)      == [tag |-> "Value", bson |-> b]
Doc(d)        == [tag |-> "Doc", doc |-> d]
Array(a)      == [tag |-> "Array", vec |-> a]
Cmp(op, b)    == [tag |-> op, bson |-> b]     \* Eq, Ne, Gt, Lt, Gte, Lte
Among(op, a)  == [tag |-> op, bsons |-> a]     \* In, Nin, All
Not(f)        == [tag |-> "Not", inner |-> f]
Exists(b)     == [tag |-> "Exists", flag |-> b]
Type(types)   == [tag |-> "Type", types |-> types]
JsonSchema(d) == [tag |-> "JsonSchema", schema |-> d]
Regex(p, o)   == [tag |-> "Regex", pattern |-> p, options |-> o]
ElemMatch(d)  == [tag |-> "ElemMatch", doc |-> d]
Size(n)       == [tag |-> "Size", size |-> n]

\* Filter::serialize_map: a one-entry map; an error of the value's own
\* serialization is what serialize_entry returns.
serialize_map(key, value) ==
    IF value.kind = "err" THEN value
    ELSE Ok(BDoc(<< <<key, value.value>> >>))

\* Mutant: the value is wrapped in an operator document.
ValueSerializeWrapped(b) == serialize_map("$eq", Ok(b))

\* The Value arm: the Bson value serializes as itself.
ValueSerialize(b) == Ok(b)

\* Mutant: the flag is emitted as a native boolean.
ExistsSerializeBool(b) == serialize_map("$exists", Ok(BBool(b)))

\* The Exists arm: `b as i32`.
ExistsSerialize(b) == serialize_map("$exists", Ok(BI32(IF b THEN 1 ELSE 0)))

\* Mutant: "$options" is emitted for the empty option set too.
RegexSerializeAlways(pattern, options) ==
    LET o == OptsWireToBson(RegexOptsSerialize(options))
    IN  IF o.kind = "err" THEN o
        ELSE Ok(BDoc(<< <<"$regex", BStr(pattern)>>, <<"$options", o.value>> >>))

\* The Regex arm: one entry, or two when options is not empty.
RegexSerialize(pattern, options) ==
    IF options = 0
    THEN serialize_map("$regex", Ok(BStr(pattern)))
    ELSE LET o == OptsWireToBson(RegexOptsSerialize(options))
         IN  IF o.kind = "err" THEN o
             ELSE Ok(BDoc(<< <<"$regex", BStr(pattern)>>,
                             <<"$options", o.value>> >>))

\* Mutant: the cast is made without the overflow check.
SizeSerializeUnchecked(size, usz) == serialize_map("$size", Ok(BI64(AsI64(size))))

\* The Size arm: an error when the usize does not fit an i64.
SizeSerialize(size, usz) ==
    IF usz >= 8 /\ WordGt(size, AsUsize(I64_MAX, usz))
    THEN SerErr("{ $size: .. } overflows i64")
    ELSE serialize_map("$size", Ok(BI64(AsI64(size))))

RECURSIVE FilterSerialize(_, _)
RECURSIVE DocumentSerializeFrom(_, _, _, _)
RECURSIVE VecSerializeFrom(_, _, _, _)

\* Document<Filter>::serialize from entry i on: a map of the entries in the
\* document's order; the first entry that fails ends it.
DocumentSerializeFrom(d, i, out, usz) ==
    IF i > Len(d) THEN Ok(BDoc(out))
    ELSE LET r == FilterSerialize(d[i][2], usz)
         IN  IF r.kind = "err" THEN r
             ELSE DocumentSerializeFrom(d, i + 1,
                    Append(out, <<d[i][1], r.value>>), usz)

DocumentSerialize(d, usz) == DocumentSerializeFrom(d, 1, <<>>, usz)

\* Vec<Filter>::serialize from element i on: a sequence of the elements in
\* order; the first element that fails ends it.
VecSerializeFrom(a, i, out, usz) ==
    IF i > Len(a) THEN Ok(BArr(out))
    ELSE LET r == FilterSerialize(a[i], usz)
         IN  IF r.kind = "err" THEN r
             ELSE VecSerializeFrom(a, i + 1, Append(out, r.value), usz)

VecSerialize(a, usz) == VecSerializeFrom(a, 1, <<>>, usz)

\* The operator key of the one-entry arms that hand a Bson value on.
CmpKey(tag) ==
    CASE tag = "Eq" -> "$eq" [] tag = "Ne" -> "$ne" [] tag = "Gt" -> "$gt"
      [] tag = "Lt" -> "$lt" [] tag = "Gte" -> "$gte" [] tag = "Lte" -> "$lte"
      [] tag = "In" -> "$in" [] tag = "Nin" -> "$nin" [] tag = "All" -> "$all"

\* impl Serialize for Filter, on a target whose usize has usz bytes.
FilterSerialize(self, usz) ==
    CASE self.tag = "Value" -> ValueSerialize(self.bson)
      [] self.tag = "Doc" -> DocumentSerialize(self.doc, usz)
      [] self.tag = "Array" -> VecSerialize(self.vec, usz)
      [] self.tag \in {"Eq", "Ne", "Gt", "Lt", "Gte", "Lte"} ->
            serialize_map(CmpKey(self.tag), Ok(self.bson))
      [] self.tag \in {"In", "Nin", "All"} ->
            serialize_map(CmpKey(self.tag), Ok(BArr(self.bsons)))
      [] self.tag = "Not" ->
            serialize_map("$not", FilterSerialize(self.inner, usz))
      [] self.tag = "Exists" -> ExistsSerialize(self.flag)
      [] self.tag = "Type" ->
            serialize_map("$type", TypeWireToBson(BsonTypeSerialize(self.types)))
      [] self.tag = "JsonSchema" -> serialize_map("$jsonSchema", Ok(self.schema))
      [] self.tag = "Regex" -> RegexSerialize(self.pattern, self.options)
      [] self.tag = "ElemMatch" ->
            serialize_map("$elemMatch", DocumentSerialize(self.doc, usz))
      [] self.tag = "Size" -> SizeSerialize(self.size, usz)

-----------------------------------------------------------------------------
(* Scenario of the Filter serializer: bson::to_bson(&filter) *)

\* How many times the nested filters are wrapped once more.
MaxDepth == 2

\* Limbs of the usize values handed to Size: around 0, i64::MAX and the top.
LimbInputs == {0, 1, 32767, 32768, 65535}

UsizeInputs(usz) ==
    {w \in [1..4 -> LimbInputs] : usz >= 8 \/ (w[1] = 0 /\ w[2] = 0)}

BsonInputs == {BI32(5), BStr("H2CO3")}
BsonVecInputs == SeqUpTo(BsonInputs, 2)
SchemaInputs == {BDoc(<<>>), BDoc(<< <<"type", BStr("object")>> >>)}
TypeInputs == {0, ARRAY, NUMBER, LONG, INT + STRING_FLAG}

\* Every variant that holds no other filter, with each of its payloads.
Leaves(usz) ==
    {Value(b) : b \in BsonInputs}
      \cup {Cmp(op, b) : op \in {"Eq", "Ne", "Gt", "Lt", "Gte", "Lte"}, b \in BsonInputs}
      \cup {Among(op, a) : op \in {"In", "Nin", "All"}, a \in BsonVecInputs}
      \cup {Exists(b) : b \in BOOLEAN}
      \cup {Type(t) : t \in TypeInputs}
      \cup {JsonSchema(d) : d \in SchemaInputs}
      \cup {Regex("^X", o) : o \in RegexOptsAll}
      \cup {Size(n) : n \in UsizeInputs(usz)}

\* The filters that the nested ones are built from; Type(0) cannot be
\* serialized.
Atoms == {Cmp("Ne", BI32(5)), Regex("^X", 0), Value(BStr("H2CO3")), Type(0)}

RECURSIVE Nested(_)
\* The atoms and the empty containers, wrapped up to d times in Not, Array,
\* Doc and ElemMatch, alone or followed by an atom.
Nested(d) ==
    IF d = 0 THEN Atoms \cup {Array(<<>>), Doc(<<>>)}
    ELSE LET P == Nested(d - 1)
         IN  P \cup {Not(f) : f \in P}
               \cup {Array(<<f>>) : f \in P}
               \cup {Array(<<f, a>>) : f \in P, a \in Atoms}
               \cup {Doc(<< <<"name", f>> >>) : f \in P}
               \cup {Doc(<< <<"name", f>>, <<"count", a>> >>) : f \in P, a \in Atoms}
               \cup {ElemMatch(<< <<"name", f>> >>) : f \in P}
               \cup {ElemMatch(<< <<"count", a>>, <<"name", f>> >>) : f \in P, a \in Atoms}

FilterInputs(usz) == Leaves(usz) \cup Nested(MaxDepth)

FilterInit ==
    /\ pc = "filter_value"
    /\ usizeBytes \in {4, 8}
    /\ filter \in FilterInputs(usizeBytes)
    /\ bson = None
    /\ OtherIdle("filter")

\* bson::to_bson(&filter).
FilterToBson ==
    /\ pc = "filter_value"
    /\ bson' = FilterSerialize(filter, usizeBytes)
    /\ pc' = "filter_serialized"
    /\ UNCHANGED <<bsonType, typeWire, typeResult, regexOpts, optsWire,
                   optsResult, usizeBytes, filter, args, done, doc>>

FilterNext == FilterToBson

SpecFilter == FilterInit /\ [][FilterNext]_vars

-----------------------------------------------------------------------------
(* Properties of the Filter serializer *)

\* The keys of a structured document, in its order.
KeysOf(b) == [i \in DOMAIN b.doc |-> b.doc[i][1]]

\* The documented operator of each variant.
OperatorOf ==
    [Eq |-> "$eq", Ne |-> "$ne", Gt |-> "$gt", Lt |-> "$lt", Gte |-> "$gte",
     Lte |-> "$lte", In |-> "$in", Nin |-> "$nin", Not |-> "$not",
     Exists |-> "$exists", Type |-> "$type", JsonSchema |-> "$jsonSchema",
     Regex |-> "$regex", All |-> "$all", ElemMatch |-> "$elemMatch",
     Size |-> "$size"]

\* C6: a filter that is no Value, Doc or Array and that serializes, gives
\* a document with exactly one key, the operator of its variant; only a
\* Regex with options gives the two keys "$regex", "$options", in that
\* order, and a Regex without options gives no "$options".
C6_OperatorKeys ==
    (/\ pc = "filter_serialized"
     /\ filter.tag \notin {"Value", "Doc", "Array"}
     /\ bson.kind = "ok")
        => /\ bson.value.t = "document"
           /\ KeysOf(bson.value) =
                IF filter.tag = "Regex" /\ filter.options # 0
                THEN <<"$regex", "$options">>
                ELSE <<OperatorOf[filter.tag]>>

\* C6 witness: a Regex with two options was serialized to two entries.
C6_Witness ==
    /\ pc = "filter_serialized"
    /\ filter = Regex("^X", IGNORE_CASE + DOT_NEWLINE)
    /\ bson = Ok(BDoc(<< <<"$regex", BStr("^X")>>,
                         <<"$options", BChars(<<105, 115>>)>> >>))

\* C7: Size(n) serializes to {"$size": n}, n a non-negative 64-bit signed
\* integer with the bits of n, when n is at most i64::MAX; a larger n gives
\* an error and no value.
C7_SizeOverflow ==
    (pc = "filter_serialized" /\ filter.tag = "Size") =>
        LET n == filter.size
        IN  IF n[1] < 32768
            THEN /\ bson = Ok(BDoc(<< <<"$size", BI64(n)>> >>))
                 /\ bson.value.doc[1][2].bits[1] < 32768
            ELSE bson.kind = "err"

\* C7 witness: on a 64-bit target, i64::MAX + 1 was refused.
C7_Witness ==
    /\ pc = "filter_serialized"
    /\ usizeBytes = 8
    /\ filter = Size(<<32768, 0, 0, 0>>)
    /\ bson.kind = "err"

\* C8: Exists(true) serializes to {"$exists": 1} and Exists(false) to
\* {"$exists": 0}, the value a 32-bit integer and never a boolean.
C8_ExistsInteger ==
    (pc = "filter_serialized" /\ filter.tag = "Exists") =>
        /\ bson.kind = "ok"
        /\ bson.value.t = "document"
        /\ Len(bson.value.doc) = 1
        /\ bson.value.doc[1][1] = "$exists"
        /\ bson.value.doc[1][2].t = "i32"
        /\ bson.value.doc[1][2].i32 = (IF filter.flag THEN 1 ELSE 0)

\* C8 witness: Exists(true) was serialized.
C8_Witness ==
    /\ pc = "filter_serialized"
    /\ filter = Exists(TRUE)
    /\ bson = Ok(BDoc(<< <<"$exists", BI32(1)>> >>))

\* The example of the claim: {"name": regex("^X"), "count": ne(5)}.
ExampleFilter ==
    Doc(<< <<"name", Regex("^X", 0)>>, <<"count", Cmp("Ne", BI32(5))>> >>)
ExampleBson ==
    BDoc(<< <<"name", BDoc(<< <<"$regex", BStr("^X")>> >>)>>,
            <<"count", BDoc(<< <<"$ne", BI32(5)>> >>)>> >>)

\* C10: Value(v) serializes to v itself; Doc(d) to a document with the
\* keys of d in d's order, each with the serialization of its filter;
\* Array(a) to the sequence of the serializations of its elements in
\* order; at every depth, and for the example of the claim.
C10_Structural ==
    pc = "filter_serialized" =>
        /\ filter.tag = "Value" => bson = Ok(filter.bson)
        /\ filter.tag = "Doc" =>
            LET d == filter.doc
                r == [i \in DOMAIN d |-> FilterSerialize(d[i][2], usizeBytes)]
            IN  /\ (bson.kind = "ok") <=> (\A i \in DOMAIN d : r[i].kind = "ok")
                /\ bson.kind = "ok" =>
                    /\ bson.value.t = "document"
                    /\ KeysOf(bson.value) = [i \in DOMAIN d |-> d[i][1]]
                    /\ \A i \in DOMAIN d : bson.value.doc[i][2] = r[i].value
        /\ filter.tag = "Array" =>
            LET a == filter.vec
                r == [i \in DOMAIN a |-> FilterSerialize(a[i], usizeBytes)]
            IN  /\ (bson.kind = "ok") <=> (\A i \in DOMAIN a : r[i].kind = "ok")
                /\ bson.kind = "ok" =>
                    /\ bson.value.t = "array"
                    /\ bson.value.arr = [i \in DOMAIN a |-> r[i].value]
        /\ filter = ExampleFilter => bson = Ok(ExampleBson)

\* C10 witness: a document nested in a document was serialized, each level
\* keeping its keys.
C10_Witness ==
    /\ pc = "filter_serialized"
    /\ filter = Doc(<< <<"name", Doc(<< <<"name", Value(BStr("H2CO3"))>>,
                                        <<"count", Cmp("Ne", BI32(5))>> >>)>>,
                       <<"count", Regex("^X", 0)>> >>)
    /\ bson = Ok(BDoc(<<
            <<"name", BDoc(<< <<"name", BStr("H2CO3")>>,
                              <<"count", BDoc(<< <<"$ne", BI32(5)>> >>)>> >>)>>,
            <<"count", BDoc(<< <<"$regex", BStr("^X")>> >>)>> >>))

-----------------------------------------------------------------------------
(* FilterDoc and the flt! macro *)

\* Document::insert: a new key is appended; an existing key keeps its
\* place and takes the new value.
DocumentInsert(d, key, value) ==
    IF \E i \in DOMAIN d : d[i][1] = key
    THEN [i \in DOMAIN d |-> IF d[i][1] = key THEN <<key, value>> ELSE d[i]]
    ELSE Append(d, <<key, value>>)

\* What a flt! value expression may be: a Filter, something that converts
\* to Bson, or a FilterDoc (a nested flt!).
FromFilter(f) == [from |-> "Filter", filter |-> f]
FromBson(b)   == [from |-> "Bson", bson |-> b]
FromDoc(d)    == [from |-> "FilterDoc", doc |-> d]

\* $value.into(): the From impls of Filter, and the identity on a Filter.
FilterFrom(value) ==
    IF value.from = "Filter" THEN value.filter
    ELSE IF value.from = "Bson" THEN Value(value.bson)
    ELSE Doc(value.doc)

\* Mutant: the repetition is expanded from the last pair to the first.
FltPairReversed(pairs, n) == pairs[Len(pairs) + 1 - n]

\* The n-th `$path: $value` of the macro's repetition.
FltPair(pairs, n) == pairs[n]

\* Most pairs in one flt! invocation.
MaxPairs == 4

FltPairInputs ==
    ({"a", "b", "c"} \X {FromFilter(Cmp("Ne", BI32(5))), FromBson(BI32(2018))})
        \cup {<<"c", FromDoc(<< <<"year", Value(BI32(2018))>> >>)>>}

DocInit ==
    /\ pc = "flt"
    /\ args \in SeqUpTo(FltPairInputs, MaxPairs)
    /\ done = 0
    /\ doc = <<>>
    /\ OtherIdle("doc")

\* One doc.insert($path.into(), $value.into()) of the expansion.
FltInsert ==
    /\ pc = "flt"
    /\ done < Len(args)
    /\ LET pair == FltPair(args, done + 1)
       IN  doc' = DocumentInsert(doc, pair[1], FilterFrom(pair[2]))
    /\ done' = done + 1
    /\ UNCHANGED <<pc, bsonType, typeWire, typeResult, regexOpts, optsWire,
                   optsResult, usizeBytes, filter, bson, args>>

\* bson::to_bson(&doc) of the finished document.
DocToBson ==
    /\ pc = "flt"
    /\ done = Len(args)
    /\ bson' = DocumentSerialize(doc, usizeBytes)
    /\ pc' = "flt_serialized"
    /\ UNCHANGED <<bsonType, typeWire, typeResult, regexOpts, optsWire,
                   optsResult, usizeBytes, filter, args, done, doc>>

DocNext == FltInsert \/ DocToBson

SpecDoc == DocInit /\ [][DocNext]_vars

-----------------------------------------------------------------------------
(* Properties of the document *)

\* The insertions made so far with the key, by their place in the macro.
InsertionsOf(key) == {n \in 1..done : args[n][1] = key}
FirstOf(S) == CHOOSE n \in S : \A m \in S : n <= m
LastOf(S) == CHOOSE n \in S : \A m \in S : m <= n

\* C9: after any run of insertions on an empty document, every key occurs
\* once, the keys iterate in the order of their first insertion, and each
\* key holds the value of its latest insertion.
C9_InsertionOrder ==
    pc \in {"flt", "flt_serialized"} =>
        /\ \A i, j \in DOMAIN doc : doc[i][1] = doc[j][1] => i = j
        /\ {doc[i][1] : i \in DOMAIN doc} = {args[n][1] : n \in 1..done}
        /\ \A i, j \in DOMAIN doc :
            i < j => FirstOf(InsertionsOf(doc[i][1])) < FirstOf(InsertionsOf(doc[j][1]))
        /\ \A i \in DOMAIN doc :
            doc[i][2] = FilterFrom(args[LastOf(InsertionsOf(doc[i][1]))][2])

\* C9 witness: a, b, c were inserted and then a again with another value:
\* the keys iterate as a, b, c and a holds the later value.
C9_Witness ==
    /\ pc = "flt"
    /\ done = 4
    /\ [n \in 1..4 |-> args[n][1]] = <<"a", "b", "c", "a">>
    /\ args[1][2] # args[4][2]
    /\ [i \in DOMAIN doc |-> doc[i][1]] = <<"a", "b", "c">>
    /\ doc[1][2] = FilterFrom(args[4][2])

-----------------------------------------------------------------------------
(* All scenarios together *)

Init == TypeInit \/ TypeInputInit \/ RegexInit \/ FilterInit \/ DocInit

Next == TypeNext \/ TypeInputNext \/ RegexNext \/ FilterNext \/ DocNext

Spec == Init /\ [][Next]_vars

=============================================================================
